---- MODULE Spec2Model ----
(***************************************************************************)
(* Model of js/gallery-lightbox.js: the lightbox controller of the photo   *)
(* gallery.  The module-level variables of the script and the part of the  *)
(* DOM it reads and writes are the state; every DOM event whose listener    *)
(* the script installs is one action, running the whole listener chain of   *)
(* that event.                                                              *)
(*                                                                         *)
(* Handlers are written as operators from a state record to a state record *)
(* (Cur packs the variables, Set unpacks a record into the next state), so  *)
(* that a handler calling another handler is plain composition.            *)
(*                                                                         *)
(* Platform behaviour the script relies on and that is modelled as such:   *)
(*   - an element with the hidden attribute is not rendered: it cannot be  *)
(*     clicked or focused by the user and element.focus() on it does       *)
(*     nothing;                                                            *)
(*   - addEventListener ignores a listener that is already registered with *)
(*     the same type and callback; classList.add is idempotent;            *)
(*   - the browser moves focus (Tab, mouse down) in steps of its own,      *)
(*     before the click it may cause is dispatched.                        *)
(***************************************************************************)
EXTENDS Integers, Sequences, FiniteSets, TLC

\* ---------------------------------------------------------------- bounds
MaxItems == 2
\* Largest gallery among those whose items all have a picture.
MaxMediaItems == 3

\* ------------------------------------------------------------ page markup
\* The kinds of thumbnail link the page may hold: picture = the link has a
\* <picture>; img = the link has an <img> (inside the picture when there is
\* one); alt = the img has a non-empty alt attribute.
ItemKinds ==
  { [picture |-> TRUE,  img |-> TRUE,  alt |-> TRUE],
    [picture |-> TRUE,  img |-> TRUE,  alt |-> FALSE],
    [picture |-> TRUE,  img |-> FALSE, alt |-> FALSE],
    [picture |-> FALSE, img |-> TRUE,  alt |-> TRUE] }

\* The alt text of the img of link number i (from 0), when it has one: every
\* photo has a text of its own.
AltTexts == <<"A", "B", "C", "D", "E", "F">>
AltText(i) == AltTexts[i + 1]

Galleries == UNION { [1..n -> ItemKinds] : n \in 1..MaxItems }

\* The galleries in which every link holds a <picture>: one with an img that
\* has an alt text, or one with no img at all (and hence an empty caption).
MediaKinds == {k \in ItemKinds : k.picture /\ (k.img <=> k.alt)}
MediaGalleries == UNION { [1..n -> MediaKinds] : n \in 1..MaxMediaItems }

\* Elements that can hold keyboard focus, as [kind, idx].
El(kind) == [kind |-> kind, idx |-> 0]
Link(i) == [kind |-> "link", idx |-> i]
NullElement == El("null")
Unobserved == El("unobserved")
Body == El("body")
SvgElement == El("svg")
CloseButton == El("close")
PrevButton == El("prev")
NextButton == El("next")
OverlayControls == {CloseButton, PrevButton, NextButton}

Keys == {"Escape", "ArrowLeft", "ArrowRight", "Tab"}
\* Where a click inside the overlay can land: the backdrop (the overlay
\* itself), the dialog, figure or caption, the displayed picture, a button.
ClickTargets == {"overlay", "dialog", "figure", "caption", "media", "close", "prev", "next"}
PlainClick ==
  [defaultPrevented |-> FALSE, button |-> 0, metaKey |-> FALSE,
   ctrlKey |-> FALSE, shiftKey |-> FALSE, altKey |-> FALSE]

\* The click events a thumbnail link receives: the plain primary click, every
\* click that differs from it in one property, and one that differs in all.
MouseEvents ==
  { PlainClick,
    [PlainClick EXCEPT !.defaultPrevented = TRUE],
    [PlainClick EXCEPT !.button = 1],
    [PlainClick EXCEPT !.button = 2],
    [PlainClick EXCEPT !.metaKey = TRUE],
    [PlainClick EXCEPT !.ctrlKey = TRUE],
    [PlainClick EXCEPT !.shiftKey = TRUE],
    [PlainClick EXCEPT !.altKey = TRUE],
    [defaultPrevented |-> TRUE, button |-> 2, metaKey |-> TRUE,
     ctrlKey |-> TRUE, shiftKey |-> TRUE, altKey |-> TRUE] }

\* The ones the behaviours take: the plain click and one click for each way
\* the listener can turn an event down.
ClicksTried ==
  { PlainClick,
    [PlainClick EXCEPT !.defaultPrevented = TRUE],
    [PlainClick EXCEPT !.button = 1],
    [PlainClick EXCEPT !.ctrlKey = TRUE] }

NULL == 0

VARIABLES
  galleryLinks,      \* the thumbnail links found at load, in document order
  activeIndex,
  overlay,           \* NULL or the identity of the overlay node
  overlayHidden,     \* overlay.hidden
  bodyOverlays,      \* number of overlay nodes appended to document.body
  figurePictures,    \* the <picture> children of the figure, in order
  captionText,       \* caption.textContent
  lightboxOpenClass, \* document.body.classList contains "lightbox-open"
  keydownListeners,  \* keydown listeners registered on document
  restoreFocusTo,
  activeElement,     \* document.activeElement
  uncaught,          \* a handler ended in an uncaught TypeError
  defaultPrevented,  \* event.defaultPrevented of the last event, after dispatch
  closeCalls,        \* calls of closeLightbox during the last event
  lastEvent,         \* the last event dispatched: "load", "thumbnail", "focus",
                     \* the key of a keydown or the target of an overlay click
  focusAtOpen        \* observer: document.activeElement when the overlay
                     \* last went from closed to open (Unobserved in Spec)

vars == <<galleryLinks, activeIndex, overlay, overlayHidden, bodyOverlays,
          figurePictures, captionText, lightboxOpenClass, keydownListeners,
          restoreFocusTo, activeElement, uncaught, defaultPrevented,
          closeCalls, lastEvent, focusAtOpen>>

itemCount == Len(galleryLinks)

Cur ==
  [activeIndex |-> activeIndex, overlay |-> overlay,
   overlayHidden |-> overlayHidden, bodyOverlays |-> bodyOverlays,
   figurePictures |-> figurePictures, captionText |-> captionText,
   lightboxOpenClass |-> lightboxOpenClass,
   keydownListeners |-> keydownListeners,
   restoreFocusTo |-> restoreFocusTo, activeElement |-> activeElement,
   uncaught |-> uncaught, defaultPrevented |-> defaultPrevented,
   closeCalls |-> closeCalls]

Set(s) ==
  /\ activeIndex' = s.activeIndex
  /\ overlay' = s.overlay
  /\ overlayHidden' = s.overlayHidden
  /\ bodyOverlays' = s.bodyOverlays
  /\ figurePictures' = s.figurePictures
  /\ captionText' = s.captionText
  /\ lightboxOpenClass' = s.lightboxOpenClass
  /\ keydownListeners' = s.keydownListeners
  /\ restoreFocusTo' = s.restoreFocusTo
  /\ activeElement' = s.activeElement
  /\ uncaught' = s.uncaught
  /\ defaultPrevented' = s.defaultPrevented
  /\ closeCalls' = s.closeCalls

\* The state a new event is dispatched in.
Dispatching(prevented) ==
  [Cur EXCEPT !.defaultPrevented = prevented, !.closeCalls = 0]

\* ------------------------------------------------------ platform helpers
IsHTMLElement(e) == e.kind \in {"body", "link", "close", "prev", "next"}

Rendered(s, e) == e \notin OverlayControls \/ (s.overlay # NULL /\ ~s.overlayHidden)

\* element.focus()
Focus(s, e) == IF Rendered(s, e) THEN [s EXCEPT !.activeElement = e] ELSE s

\* JavaScript's %: the remainder has the sign of the dividend.
JsRem(a, n) == IF a >= 0 THEN a % n ELSE -((-a) % n)

\* addEventListener adding the listener once more on every call.
AddKeydownListener_noDedup(s) == [s EXCEPT !.keydownListeners = @ + 1]

\* document.addEventListener("keydown", onKeyDown)
AddKeydownListener(s) ==
  IF s.keydownListeners >= 1 THEN s ELSE [s EXCEPT !.keydownListeners = 1]

\* document.removeEventListener("keydown", onKeyDown)
RemoveKeydownListener(s) ==
  IF s.keydownListeners >= 1 THEN [s EXCEPT !.keydownListeners = @ - 1] ELSE s

\* ------------------------------------------------------------ the script
buildOverlay(s) ==
  [s EXCEPT !.overlay = s.bodyOverlays + 1,
            !.overlayHidden = TRUE,
            !.figurePictures = <<>>,
            !.captionText = "",
            !.bodyOverlays = @ + 1]

NoItem == [link |-> -1, picture |-> FALSE, img |-> FALSE, alt |-> ""]

getItem(index) ==
  IF index \notin 0..(itemCount - 1) THEN NoItem
  ELSE LET link == galleryLinks[index + 1]
       IN [link |-> index, picture |-> link.picture, img |-> link.img,
           alt |-> IF link.img /\ link.alt THEN AltText(index) ELSE ""]

\* item.picture.cloneNode(true) with the class and the img attributes set
PictureClone(item) ==
  [src |-> item.link, class |-> "lightbox-media",
   loading |-> IF item.img THEN "eager" ELSE "",
   sizes |-> IF item.img THEN "100vw" ELSE ""]

\* setOverlayMedia without the removal of the picture already in the figure.
setOverlayMedia_noRemove(s, item) ==
  IF s.overlay = NULL THEN [s EXCEPT !.uncaught = TRUE]
  ELSE IF ~item.picture THEN s
  ELSE [s EXCEPT !.figurePictures = Append(@, PictureClone(item)),
                 !.captionText = item.alt]

setOverlayMedia(s, item) ==
  IF s.overlay = NULL THEN [s EXCEPT !.uncaught = TRUE]
  ELSE LET removed == IF s.figurePictures = <<>> THEN <<>>
                      ELSE Tail(s.figurePictures)
       IN IF ~item.picture THEN [s EXCEPT !.figurePictures = removed]
          ELSE [s EXCEPT !.figurePictures = Append(removed, PictureClone(item)),
                         !.captionText = item.alt]

\* The normalisation with a single %, which is negative for a negative index.
Normalize_singleRem(index) == JsRem(index, itemCount)

Normalize(index) == JsRem(JsRem(index, itemCount) + itemCount, itemCount)

\* showAt storing the index it was given instead of the normalised one.
showAt_rawIndex(s, index) ==
  LET item == getItem(Normalize(index))
  IN IF item.link = -1 THEN s
     ELSE setOverlayMedia([s EXCEPT !.activeIndex = index], item)

showAt(s, index) ==
  LET normalized == Normalize(index)
      item == getItem(normalized)
  IN IF item.link = -1 THEN s
     ELSE setOverlayMedia([s EXCEPT !.activeIndex = normalized], item)

\* showByOffset taking the offset for the index to show.
showByOffset_absolute(s, offset) == showAt(s, offset)

showByOffset(s, offset) == showAt(s, s.activeIndex + offset)

\* closeLightbox without the final restoreFocusTo = null.
closeLightbox_keepRecord(s) ==
  LET c == [s EXCEPT !.closeCalls = @ + 1]
  IN IF c.overlay = NULL THEN c
     ELSE LET h == RemoveKeydownListener(
                     [c EXCEPT !.overlayHidden = TRUE,
                               !.lightboxOpenClass = FALSE])
          IN IF h.restoreFocusTo # NullElement
             THEN Focus(h, h.restoreFocusTo) ELSE h

closeLightbox(s) ==
  LET c == [s EXCEPT !.closeCalls = @ + 1]
  IN IF c.overlay = NULL THEN c
     ELSE LET h == RemoveKeydownListener(
                     [c EXCEPT !.overlayHidden = TRUE,
                               !.lightboxOpenClass = FALSE])
              f == IF h.restoreFocusTo # NullElement
                   THEN Focus(h, h.restoreFocusTo) ELSE h
          IN [f EXCEPT !.restoreFocusTo = NullElement]

\* onKeyDown without the Escape branch.
onKeyDown_noEscape(s, key) ==
  IF s.overlay # NULL /\ s.overlayHidden THEN s
  ELSE IF key = "ArrowLeft"
       THEN showByOffset([s EXCEPT !.defaultPrevented = TRUE], -1)
  ELSE IF key = "ArrowRight"
       THEN showByOffset([s EXCEPT !.defaultPrevented = TRUE], 1)
  ELSE s

onKeyDown(s, key) ==
  IF s.overlay # NULL /\ s.overlayHidden THEN s
  ELSE IF key = "Escape"
       THEN closeLightbox([s EXCEPT !.defaultPrevented = TRUE])
  ELSE IF key = "ArrowLeft"
       THEN showByOffset([s EXCEPT !.defaultPrevented = TRUE], -1)
  ELSE IF key = "ArrowRight"
       THEN showByOffset([s EXCEPT !.defaultPrevented = TRUE], 1)
  ELSE s

\* openLightbox reading document.activeElement after closeButton.focus().
openLightbox_recordAfterFocus(s, index) ==
  LET b == IF s.overlay = NULL THEN buildOverlay(s) ELSE s
      r == [b EXCEPT !.lightboxOpenClass = TRUE, !.overlayHidden = FALSE]
      d == showAt(r, index)
      f == Focus(AddKeydownListener(d), CloseButton)
  IN IF d.uncaught THEN d
     ELSE [f EXCEPT !.restoreFocusTo =
                       IF IsHTMLElement(f.activeElement)
                       THEN f.activeElement ELSE NullElement]

\* openLightbox building an overlay on every call.
openLightbox_alwaysBuild(s, index) ==
  LET b == buildOverlay(s)
      r == [b EXCEPT !.restoreFocusTo =
                        IF IsHTMLElement(b.activeElement)
                        THEN b.activeElement ELSE NullElement,
                     !.lightboxOpenClass = TRUE,
                     !.overlayHidden = FALSE]
      d == showAt(r, index)
  IN IF d.uncaught THEN d ELSE Focus(AddKeydownListener(d), CloseButton)

openLightbox(s, index) ==
  LET b == IF s.overlay = NULL THEN buildOverlay(s) ELSE s
      r == [b EXCEPT !.restoreFocusTo =
                        IF IsHTMLElement(b.activeElement)
                        THEN b.activeElement ELSE NullElement,
                     !.lightboxOpenClass = TRUE,
                     !.overlayHidden = FALSE]
      d == showAt(r, index)
  IN IF d.uncaught THEN d ELSE Focus(AddKeydownListener(d), CloseButton)

\* The click filter without the ctrlKey test.
Qualifies_noCtrl(ev) ==
  ~(ev.defaultPrevented \/ ev.button # 0 \/ ev.metaKey \/ ev.shiftKey
    \/ ev.altKey)

\* The condition under which the thumbnail listener goes on.
Qualifies(ev) ==
  ~(ev.defaultPrevented \/ ev.button # 0 \/ ev.metaKey \/ ev.ctrlKey
    \/ ev.shiftKey \/ ev.altKey)

linkOnClick(s, index, ev) ==
  IF ~Qualifies(ev) THEN s
  ELSE openLightbox([s EXCEPT !.defaultPrevented = TRUE], index)

\* The overlay's listener without the test for the prev and next controls.
overlayClickCloses_noArrowTest(target) == target \notin {"media", "close"}

\* The overlay's listener without the test for the close control.
overlayClickCloses_noCloseTest(target) == target \notin {"media", "prev", "next"}

\* The overlay's click listener calls closeLightbox for this target.
overlayClickCloses(target) == target \notin {"media", "prev", "next", "close"}

overlayOnClick(s, target) ==
  IF overlayClickCloses(target) THEN closeLightbox(s) ELSE s

\* The listener on the target itself, which runs before the event bubbles
\* to the overlay.
targetOnClick(s, target) ==
  IF target = "close" THEN closeLightbox(s)
  ELSE IF target = "prev" THEN showByOffset(s, -1)
  ELSE IF target = "next" THEN showByOffset(s, 1)
  ELSE s

\* The keydown listener registered from page load on, not only while open.
DispatchKeyDown_always(s, key) == onKeyDown(s, key)

\* document dispatches keydown to the registered listeners.
DispatchKeyDown(s, key) ==
  IF s.keydownListeners >= 1 THEN onKeyDown(s, key) ELSE s

IsOpen(s) == s.overlay # NULL /\ ~s.overlayHidden

\* ------------------------------------------------------------ behaviour
InitWidget ==
  /\ galleryLinks \in Galleries
  /\ activeIndex = 0
  /\ overlay = NULL
  /\ overlayHidden = TRUE
  /\ bodyOverlays = 0
  /\ figurePictures = <<>>
  /\ captionText = ""
  /\ lightboxOpenClass = FALSE
  /\ keydownListeners = 0
  /\ restoreFocusTo = NullElement
  /\ activeElement = Body
  /\ uncaught = FALSE
  /\ defaultPrevented = FALSE
  /\ closeCalls = 0
  /\ lastEvent = "load"

Init == InitWidget /\ focusAtOpen = Unobserved

\* The same behaviours with the focus observer running.
InitFocus == InitWidget /\ focusAtOpen = NullElement

\* focusAtOpen follows the handler's result s: it is taken when the overlay
\* goes from closed to open and dropped when the overlay is closed.
Observe(s) ==
  focusAtOpen' = IF focusAtOpen = Unobserved THEN Unobserved
                 ELSE IF ~IsOpen(s) THEN NullElement
                 ELSE IF ~IsOpen(Cur) THEN activeElement
                 ELSE focusAtOpen

\* The state after a click event ev on thumbnail link number index.
ThumbnailClickResult(index, ev) ==
  linkOnClick(Dispatching(ev.defaultPrevented), index, ev)

ThumbnailClick ==
  \E index \in 0..(itemCount - 1), ev \in ClicksTried :
    LET s == ThumbnailClickResult(index, ev)
    IN /\ Set(s)
       /\ Observe(s)
       /\ lastEvent' = "thumbnail"
       /\ UNCHANGED galleryLinks

\* The click targets the overlay offers: the picture only while one is shown.
Clickable(target) ==
  /\ IsOpen(Cur)
  /\ target = "media" => figurePictures # <<>>

\* The state after a click on a rendered element of the overlay subtree: the
\* target's own listener runs, then the overlay's.
OverlayClickResult(target) ==
  overlayOnClick(targetOnClick(Dispatching(FALSE), target), target)

OverlayClick ==
  \E target \in ClickTargets :
    /\ Clickable(target)
    /\ LET s == OverlayClickResult(target)
       IN Set(s) /\ Observe(s)
    /\ lastEvent' = target
    /\ UNCHANGED galleryLinks

\* The state after a keydown event on the document.
KeyDownResult(key) == DispatchKeyDown(Dispatching(FALSE), key)

KeyDown ==
  \E key \in Keys :
    /\ LET s == KeyDownResult(key)
       IN Set(s) /\ Observe(s)
    /\ lastEvent' = key
    /\ UNCHANGED galleryLinks

\* The elements the user moves focus to: a focusable element of the page that
\* is no HTMLElement, the thumbnail links, and the rendered controls of the
\* overlay (the next button standing for both arrows, which the script
\* treats alike as holders of focus).
Focusable ==
  {SvgElement} \cup {Link(i) : i \in 0..(itemCount - 1)}
    \cup {e \in {CloseButton, NextButton} : Rendered(Cur, e)}

\* The browser moves focus (Tab, mouse down).
UserFocus ==
  \E e \in Focusable :
    /\ e # activeElement
    /\ Set([Dispatching(FALSE) EXCEPT !.activeElement = e])
    /\ lastEvent' = "focus"
    /\ UNCHANGED <<galleryLinks, focusAtOpen>>

Next == ThumbnailClick \/ OverlayClick \/ KeyDown \/ UserFocus

Spec == Init /\ [][Next]_vars

SpecFocus == InitFocus /\ [][Next]_vars

\* The script with the keydown listener installed at load, before the test
\* for an empty gallery.
InitEmpty_keydownAtLoad ==
  /\ galleryLinks = <<>>
  /\ activeIndex = 0
  /\ overlay = NULL
  /\ overlayHidden = TRUE
  /\ bodyOverlays = 0
  /\ figurePictures = <<>>
  /\ captionText = ""
  /\ lightboxOpenClass = FALSE
  /\ keydownListeners = 1
  /\ restoreFocusTo = NullElement
  /\ activeElement = Body
  /\ uncaught = FALSE
  /\ defaultPrevented = FALSE
  /\ closeCalls = 0
  /\ lastEvent = "load"
  /\ focusAtOpen = Unobserved

\* The page without a gallery link: the script returns at the length test,
\* before it declares its variables and before it installs a listener or
\* builds anything.  The variables of the model hold what they hold on a
\* page where nothing has been built.
InitEmpty ==
  /\ galleryLinks = <<>>
  /\ activeIndex = 0
  /\ overlay = NULL
  /\ overlayHidden = TRUE
  /\ bodyOverlays = 0
  /\ figurePictures = <<>>
  /\ captionText = ""
  /\ lightboxOpenClass = FALSE
  /\ keydownListeners = 0
  /\ restoreFocusTo = NullElement
  /\ activeElement = Body
  /\ uncaught = FALSE
  /\ defaultPrevented = FALSE
  /\ closeCalls = 0
  /\ lastEvent = "load"
  /\ focusAtOpen = Unobserved

\* Any page the script is loaded on, with a gallery or without.
InitPage == Init \/ InitEmpty

SpecPage == InitPage /\ [][Next]_vars

\* The pages whose gallery items all have a picture.
InitMedia ==
  /\ galleryLinks \in MediaGalleries
  /\ activeIndex = 0
  /\ overlay = NULL
  /\ overlayHidden = TRUE
  /\ bodyOverlays = 0
  /\ figurePictures = <<>>
  /\ captionText = ""
  /\ lightboxOpenClass = FALSE
  /\ keydownListeners = 0
  /\ restoreFocusTo = NullElement
  /\ activeElement = Body
  /\ uncaught = FALSE
  /\ defaultPrevented = FALSE
  /\ closeCalls = 0
  /\ lastEvent = "load"
  /\ focusAtOpen = Unobserved

SpecMedia == InitMedia /\ [][Next]_vars

\* ------------------------------------------------------------ properties
\* The claims about what an event does are stated on the state the event's
\* listeners produce from the current state (ThumbnailClickResult,
\* OverlayClickResult, KeyDownResult: the very records the actions move to),
\* for every reachable current state.
Indices == 0..(itemCount - 1)

\* What the page markup says about link number i, read off galleryLinks.
MarkupAlt(i) ==
  IF galleryLinks[i + 1].img /\ galleryLinks[i + 1].alt THEN AltText(i) ELSE ""
MarkupHasPicture(i) == galleryLinks[i + 1].picture

\* The state after Activate(i): a plain primary click on thumbnail i.
Activated(i) == ThumbnailClickResult(i, PlainClick)

\* The states after Navigate(offset): the arrow key and the button.
Navigated(offset) ==
  { KeyDownResult(IF offset = 1 THEN "ArrowRight" ELSE "ArrowLeft"),
    OverlayClickResult(IF offset = 1 THEN "next" ELSE "prev") }

\* The script's own state in s: s without the per-event observations.
Widget(s) ==
  <<s.activeIndex, s.overlay, s.overlayHidden, s.bodyOverlays,
    s.figurePictures, s.captionText, s.lightboxOpenClass, s.keydownListeners,
    s.restoreFocusTo, s.activeElement, s.uncaught>>

\* C1: every Activate(i), from whatever state, leaves the overlay open with
\* activeIndex = i, the caption equal to the alt text of item i ("" when it
\* has none) and the attached media being exactly one clone of item i's
\* picture.
C1_ActivateShowsItem ==
  [][\A i \in Indices :
       (Set(Activated(i)) /\ lastEvent' = "thumbnail") =>
         /\ overlay' # NULL /\ ~overlayHidden'
         /\ activeIndex' = i
         /\ captionText' = MarkupAlt(i)
         /\ MarkupHasPicture(i) =>
              /\ Len(figurePictures') = 1
              /\ figurePictures'[1].src = i]_vars

\* C2: Navigate(offset) from activeIndex a yields (a + offset) mod n in
\* [0, n); +1 from n-1 yields 0, -1 from 0 yields n-1, and the normalisation
\* maps every index, negative ones included, to index mod n.
NormalizeInputs == (0 - 2 * MaxItems)..(2 * MaxItems)

C2_NavigateWraps ==
  /\ \A index \in NormalizeInputs :
       /\ Normalize(index) = index % itemCount
       /\ Normalize(index) \in Indices
  /\ Normalize(-1) = itemCount - 1
  /\ IsOpen(Cur) =>
       \A offset \in {-1, 1} : \A s \in Navigated(offset) :
         /\ s.activeIndex = (activeIndex + offset) % itemCount
         /\ (activeIndex = itemCount - 1 /\ offset = 1) => s.activeIndex = 0
         /\ (activeIndex = 0 /\ offset = -1) => s.activeIndex = itemCount - 1

\* C2 witness: ArrowLeft was handled while open in a gallery of two and the
\* last item is now the active one, so the step was -1 from index 0.
C2_Witness ==
  /\ itemCount = 2
  /\ lastEvent = "ArrowLeft" /\ defaultPrevented
  /\ overlay # NULL /\ ~overlayHidden
  /\ activeIndex = 1

\* C3: in every reachable state 0 <= activeIndex < itemCount.
C3_ActiveIndexInRange == activeIndex >= 0 /\ activeIndex < itemCount

\* C3 witness: a click on the next button has wrapped from the last of two
\* items to the first.
C3_Witness ==
  /\ itemCount = 2
  /\ lastEvent = "next"
  /\ overlay # NULL /\ ~overlayHidden
  /\ activeIndex = 0

\* C4: the figure of the overlay never holds more than one picture.
C4_AtMostOneMedia == Len(figurePictures) <= 1

\* C4 witness: the overlay was opened again on an item that has a picture,
\* with the focus record showing that it had been open before.
C4_Witness ==
  /\ lastEvent = "thumbnail"
  /\ overlay # NULL /\ ~overlayHidden
  /\ restoreFocusTo \in OverlayControls
  /\ Len(figurePictures) = 1

\* C5: the document holds no overlay until the first Activate and exactly one
\* from then on: every Activate leaves one overlay in the body, and no event
\* replaces or removes an overlay once built or appends a second one.
C5_OneOverlay ==
  /\ bodyOverlays = IF overlay = NULL THEN 0 ELSE 1
  /\ \A i \in Indices : Activated(i).bodyOverlays = 1
  /\ overlay # NULL =>
       \A s \in {ThumbnailClickResult(i, ev) : i \in Indices, ev \in ClicksTried}
                \cup {OverlayClickResult(target) : target \in ClickTargets}
                \cup {KeyDownResult(key) : key \in Keys} :
         s.overlay = overlay /\ s.bodyOverlays = 1

\* C5 witness: an Activate received while the overlay was already open (the
\* focus it recorded was on the close control), with one overlay in the body.
C5_Witness ==
  /\ lastEvent = "thumbnail" /\ defaultPrevented
  /\ restoreFocusTo = CloseButton
  /\ overlay # NULL /\ ~overlayHidden
  /\ bodyOverlays = 1

\* C6: whenever the overlay goes from open to closed, focus is afterwards on
\* the element that held focus immediately before the overlay went from
\* closed to open.
C6_CloseRestoresFocus ==
  [][(overlay # NULL /\ ~overlayHidden /\ overlayHidden') =>
       activeElement' = focusAtOpen]_vars

\* C7: a thumbnail click with a modifier key, a non-primary button or default
\* already prevented changes nothing and does not prevent default; any other
\* click prevents default and activates with the thumbnail's index.
C7_ModifiedClickIgnored ==
  \A i \in Indices : \A ev \in MouseEvents :
    LET s == ThumbnailClickResult(i, ev)
    IN IF \/ ev.ctrlKey \/ ev.metaKey \/ ev.shiftKey \/ ev.altKey
          \/ ev.button # 0
          \/ ev.defaultPrevented
       THEN Widget(s) = Widget(Cur) /\ s.defaultPrevented = ev.defaultPrevented
       ELSE s.defaultPrevented /\ IsOpen(s) /\ s.activeIndex = i

\* C7 witness: a thumbnail click was dispatched and not prevented, and the
\* overlay has still not been built.
C7_Witness ==
  /\ lastEvent = "thumbnail" /\ ~defaultPrevented
  /\ overlay = NULL /\ bodyOverlays = 0
  /\ keydownListeners = 0 /\ ~lightboxOpenClass

\* C8: while open, a click inside the overlay closes it through the overlay's
\* listener iff the target is not the media, the close control or prev/next:
\* on the media nothing changes, prev/next move one step and stay open, the
\* close control closes with one call, every other target closes.
C8_ClickOutsideCloses ==
  \A target \in ClickTargets :
    Clickable(target) =>
      LET s == OverlayClickResult(target)
      IN CASE target = "media" ->
                Widget(s) = Widget(Cur) /\ s.closeCalls = 0
           [] target = "prev" ->
                /\ IsOpen(s) /\ s.closeCalls = 0
                /\ s.activeIndex = (activeIndex - 1) % itemCount
           [] target = "next" ->
                /\ IsOpen(s) /\ s.closeCalls = 0
                /\ s.activeIndex = (activeIndex + 1) % itemCount
           [] target = "close" -> ~IsOpen(s) /\ s.closeCalls = 1
           [] OTHER -> ~IsOpen(s) /\ s.closeCalls = 1

\* C8 witness: a click on the close control has closed the overlay with one
\* call of closeLightbox.
C8_Witness ==
  /\ lastEvent = "close"
  /\ overlay # NULL /\ overlayHidden
  /\ closeCalls = 1

\* C9: while the overlay is hidden or not yet built, Escape, ArrowLeft and
\* ArrowRight change nothing and their default action is not prevented.
C9_KeysIgnoredWhileClosed ==
  ~IsOpen(Cur) =>
    \A key \in {"Escape", "ArrowLeft", "ArrowRight"} :
      LET s == KeyDownResult(key)
      IN Widget(s) = Widget(Cur) /\ ~s.defaultPrevented

\* C9 witness: Escape was pressed while the overlay was built and hidden (it
\* called preventDefault and closeLightbox not at all).
C9_Witness ==
  /\ lastEvent = "Escape" /\ ~defaultPrevented /\ closeCalls = 0
  /\ overlay # NULL /\ overlayHidden

\* C10: closeLightbox called while the overlay is absent or hidden changes
\* nothing: visibility, page marker, key listener, focus record and the
\* focused element stay as they are.
C10_CloseWhileClosedNoOp ==
  ~IsOpen(Cur) => Widget(closeLightbox(Cur)) = Widget(Cur)

\* C10 witness: the overlay was closed by Escape with a focus record to
\* restore, and the user has since moved focus elsewhere.
C10_Witness ==
  /\ overlay # NULL /\ overlayHidden
  /\ lastEvent = "focus"
  /\ activeElement.kind = "link"
  /\ restoreFocusTo = NullElement

\* The step just taken ran DisplayItem on item i: an Activate(i), or a
\* Navigate from the open overlay whose normalised target is i.
Displays(i) ==
  \/ lastEvent' = "thumbnail" /\ Set(Activated(i))
  \/ /\ IsOpen(Cur)
     /\ \E offset \in {-1, 1} :
          /\ i = Normalize(activeIndex + offset)
          /\ lastEvent' \in {"ArrowLeft", "ArrowRight", "prev", "next"}
          /\ \E s \in Navigated(offset) : Set(s)

\* C11: a DisplayItem (via Activate or Navigate) that targets an item without
\* a media element leaves activeIndex, the pictures in the figure and the
\* caption as they were before the call, and reaches no error state.
C11_MissingMediaNoOp ==
  [][\A i \in Indices :
       (~MarkupHasPicture(i) /\ Displays(i)) =>
         /\ activeIndex' = activeIndex
         /\ figurePictures' = figurePictures
         /\ captionText' = captionText
         /\ ~uncaught']_vars

\* C12: on a page with an empty gallery no event changes any state: no click
\* or key listener is registered, no overlay is built, and no handler (hence
\* no index normalisation, a remainder by itemCount) is ever evaluated.
C12_EmptyGalleryInert ==
  itemCount = 0 =>
    /\ keydownListeners = 0
    /\ overlay = NULL /\ bodyOverlays = 0 /\ overlayHidden
    /\ activeIndex = 0 /\ figurePictures = <<>> /\ captionText = ""
    /\ ~lightboxOpenClass /\ restoreFocusTo = NullElement
    /\ ~uncaught /\ ~defaultPrevented /\ closeCalls = 0
    /\ Indices = {}
    /\ \A target \in ClickTargets : ~Clickable(target)
    /\ \A key \in Keys :
         /\ Widget(KeyDownResult(key)) = Widget(Cur)
         /\ ~KeyDownResult(key).defaultPrevented

\* C12 witness: on the page without a gallery the user has moved focus and
\* then pressed ArrowRight.
C12_Witness ==
  /\ itemCount = 0
  /\ lastEvent = "ArrowRight"
  /\ activeElement = SvgElement

\* C13: in every reachable state with the overlay open, the caption is the alt
\* text of item activeIndex ("" when it has none) and every picture in the
\* figure is a clone of that item's picture.
C13_DisplayMatchesActive ==
  IsOpen(Cur) =>
    /\ captionText = MarkupAlt(activeIndex)
    /\ \A k \in 1..Len(figurePictures) :
         figurePictures[k] = PictureClone(getItem(activeIndex))

\* The states after Deactivate from the open overlay: Escape, the close
\* control, a click on the backdrop.
Deactivated ==
  { KeyDownResult("Escape"), OverlayClickResult("close"),
    OverlayClickResult("overlay") }

\* C14: in every reachable state the overlay is visible iff the body carries
\* the lightbox-open class iff the keydown listener is registered; the
\* listener is never registered more than once, every Activate leaves exactly
\* one, and a single Deactivate leaves none, whatever number of Activates
\* came before it.
C14_OpenIndicatorsAgree ==
  /\ IsOpen(Cur) <=> lightboxOpenClass
  /\ lightboxOpenClass <=> keydownListeners >= 1
  /\ keydownListeners <= 1
  /\ \A i \in Indices :
       /\ Activated(i).keydownListeners = 1
       /\ closeLightbox(Activated(i)).keydownListeners = 0
  /\ IsOpen(Cur) =>
       \A s \in Deactivated :
         ~IsOpen(s) /\ ~s.lightboxOpenClass /\ s.keydownListeners = 0

\* C14 witness: an Activate was received while the overlay was already open
\* (the focus it recorded was on a control of the overlay), and the overlay,
\* the class and one listener are in place.
C14_Witness ==
  /\ lastEvent = "thumbnail"
  /\ restoreFocusTo \in OverlayControls
  /\ overlay # NULL /\ ~overlayHidden
  /\ lightboxOpenClass
  /\ keydownListeners = 1

\* The states the events that can be dispatched in the current state lead to.
EventResults ==
  {ThumbnailClickResult(i, ev) : i \in Indices, ev \in ClicksTried}
    \cup {OverlayClickResult(target) : target \in {t \in ClickTargets : Clickable(t)}}
    \cup {KeyDownResult(key) : key \in Keys}

\* C15: Navigate (prev/next click, ArrowLeft/ArrowRight) from the open overlay
\* leaves it open and leaves the focus record, the focused element, the body
\* class, the keydown listener and the overlay node as they are; while the
\* overlay is closed no Navigate runs (the arrow keys do nothing, prev and
\* next cannot be clicked), and every event that changes activeIndex leaves
\* the overlay open.
C15_NavigateSelfTransition ==
  /\ IsOpen(Cur) =>
       \A offset \in {-1, 1} : \A s \in Navigated(offset) :
         /\ IsOpen(s)
         /\ s.restoreFocusTo = restoreFocusTo
         /\ s.activeElement = activeElement
         /\ s.lightboxOpenClass = lightboxOpenClass
         /\ s.keydownListeners = keydownListeners
         /\ s.overlay = overlay /\ s.bodyOverlays = bodyOverlays
         /\ s.closeCalls = 0 /\ ~s.uncaught
  /\ ~IsOpen(Cur) =>
       /\ \A target \in {"prev", "next"} : ~Clickable(target)
       /\ \A key \in {"ArrowLeft", "ArrowRight"} :
            LET s == KeyDownResult(key)
            IN /\ s.activeIndex = activeIndex
               /\ s.figurePictures = figurePictures
               /\ s.captionText = captionText
  /\ \A s \in EventResults : s.activeIndex # activeIndex => IsOpen(s)

\* C15 witness: a click on the prev button has moved to the last of two
\* items while the overlay, the class, the listener and the record of the
\* thumbnail link that had focus at opening are in place.
C15_Witness ==
  /\ itemCount = 2
  /\ lastEvent = "prev"
  /\ activeIndex = 1
  /\ overlay # NULL /\ ~overlayHidden
  /\ lightboxOpenClass /\ keydownListeners = 1
  /\ restoreFocusTo.kind = "link"

NavigateFrom(s, offset, form) ==
  LET e == [s EXCEPT !.defaultPrevented = FALSE, !.closeCalls = 0]
  IN IF form = "key"
     THEN DispatchKeyDown(e, IF offset = 1 THEN "ArrowRight" ELSE "ArrowLeft")
     ELSE LET target == IF offset = 1 THEN "next" ELSE "prev"
          IN overlayOnClick(targetOnClick(e, target), target)

NavigateForms == {"key", "button"}

\* What the overlay displays in s.
Display(s) == <<s.activeIndex, s.figurePictures, s.captionText>>

\* The displays after 1, 2, ..., k consecutive Navigate(+1) from s.
RECURSIVE Walk(_, _, _)
Walk(s, k, form) ==
  IF k = 0 THEN <<>>
  ELSE LET t == NavigateFrom(s, 1, form)
       IN <<Display(t)>> \o Walk(t, k - 1, form)

\* C17: in a gallery whose n items all have a picture, from every open
\* state, Navigate(+1) then Navigate(-1), and Navigate(-1) then Navigate(+1),
\* bring back the same activeIndex, picture and caption; n consecutive
\* Navigate(+1) bring back the starting display after showing every item
\* exactly once.
C17_NavigateInvertibleCyclic ==
  (IsOpen(Cur) /\ \A i \in Indices : MarkupHasPicture(i)) =>
    /\ \A offset \in {-1, 1} : \A f1 \in NavigateForms, f2 \in NavigateForms :
         Display(NavigateFrom(NavigateFrom(Cur, offset, f1), 0 - offset, f2))
           = Display(Cur)
    /\ \A form \in NavigateForms :
         LET w == Walk(Cur, itemCount, form)
         IN /\ w[itemCount] = Display(Cur)
            /\ {w[k][1] : k \in 1..itemCount} = Indices
            /\ \A j \in 1..itemCount, k \in 1..itemCount :
                 j # k => w[j] # w[k]

\* C17 witness: in a gallery of three pictures ArrowRight has wrapped from
\* the last item to the first, which is displayed.
C17_Witness ==
  /\ itemCount = 3
  /\ \A i \in Indices : MarkupHasPicture(i)
  /\ lastEvent = "ArrowRight" /\ defaultPrevented
  /\ overlay # NULL /\ ~overlayHidden
  /\ activeIndex = 0
  /\ Len(figurePictures) = 1 /\ figurePictures[1].src = 0

\* The two states of the widget, as predicates of a state record.
ClosedState(s) ==
  /\ ~IsOpen(s)
  /\ ~s.lightboxOpenClass
  /\ s.keydownListeners = 0
  /\ s.restoreFocusTo = NullElement

OpenState(s) ==
  /\ IsOpen(s)
  /\ s.lightboxOpenClass
  /\ s.keydownListeners = 1

\* C18: every reachable state is Closed or Open and the state after load is
\* Closed; no handler ends in an error; from every reachable Closed state
\* there is a thumbnail to click and a qualifying click on any thumbnail
\* leads to Open; from every reachable Open state Escape leads to Closed.
\* Hence no reachable state is terminal and the cycle can go on for ever.
C18_OpenCloseCycle ==
  /\ ~uncaught
  /\ ClosedState(Cur) \/ OpenState(Cur)
  /\ lastEvent = "load" => ClosedState(Cur)
  /\ ClosedState(Cur) =>
       /\ Indices # {}
       /\ \A i \in Indices : \A ev \in {e \in MouseEvents : Qualifies(e)} :
            OpenState(ThumbnailClickResult(i, ev))
  /\ OpenState(Cur) => ClosedState(KeyDownResult("Escape"))

\* C18 witness: a full cycle has run: the overlay was built and opened, and
\* Escape has closed it and given focus back to a thumbnail link.
C18_Witness ==
  /\ lastEvent = "Escape" /\ defaultPrevented /\ closeCalls = 1
  /\ overlay # NULL /\ overlayHidden
  /\ ~lightboxOpenClass /\ keydownListeners = 0
  /\ activeElement.kind = "link"
====
